---- MODULE Spec2Model ----
(***************************************************************************)
(* A model of the warehouse inventory web API of HackGen-X/app.py: the     *)
(* three collections of the document store (inventory, warehouse_layout,   *)
(* movement_logs), the wall clock read by datetime.now(), and one action   *)
(* per request handler.  Text that the code parses (ISO dates, ObjectId    *)
(* hex text, numeric text, location keys) is a tuple of one-character      *)
(* strings, and each parser is an operator that does what the parser does. *)
(* Time is counted in milliseconds (the store's datetime resolution) from  *)
(* 2024-01-01T00:00:00.000.                                                *)
(***************************************************************************)
EXTENDS Integers, Sequences, FiniteSets, TLC

VARIABLES inventory, movement_logs, warehouse_layout, clock, nextOid,
          request, fault, response

vars == <<inventory, movement_logs, warehouse_layout, clock, nextOid,
          request, fault, response>>

(***************************************************************************)
(* Bounds of the model.                                                    *)
(***************************************************************************)
MaxItems == 2
MaxLogs == 9
MaxClock == 1
MaxOid == 3
MaxPreLogs == 7
MaxBins == 2

(***************************************************************************)
(* JSON / Python values: tagged records.                                   *)
(***************************************************************************)
Num(n) == [t |-> "num", v |-> n]
Str(s) == [t |-> "str", v |-> s]
Obj(f) == [t |-> "obj", v |-> f]
Null == [t |-> "null"]
Date(n) == [t |-> "date", v |-> n]

Ok(v) == [ok |-> TRUE, v |-> v]
Raise(e) == [ok |-> FALSE, exc |-> e]

\* Python truth value of a JSON value (None, 0, "" and {} are false).
Truthy(x) ==
    CASE x.t = "null" -> FALSE
      [] x.t = "num" -> x.v # 0
      [] x.t = "str" -> Len(x.v) > 0
      [] x.t = "obj" -> DOMAIN x.v # {}
      [] OTHER -> TRUE

\* dict.get(key) with the default None.
Get(d, key) == IF key \in DOMAIN d THEN d[key] ELSE Null

Digits == {"0", "1", "2", "3", "4", "5", "6", "7", "8", "9"}

DigitVal(c) ==
    CASE c = "0" -> 0 [] c = "1" -> 1 [] c = "2" -> 2 [] c = "3" -> 3
      [] c = "4" -> 4 [] c = "5" -> 5 [] c = "6" -> 6 [] c = "7" -> 7
      [] c = "8" -> 8 [] c = "9" -> 9

AllDigits(s) == \A i \in 1..Len(s) : s[i] \in Digits

RECURSIVE DecimalValue(_)
DecimalValue(s) ==
    IF s = <<>> THEN 0
    ELSE 10 * DecimalValue(SubSeq(s, 1, Len(s) - 1)) + DigitVal(s[Len(s)])

\* float(x): a number is kept, decimal text is read, any other text is a
\* ValueError, and None or a container is a TypeError.
Float(x) ==
    CASE x.t = "num" -> Ok(x.v)
      [] x.t = "str" -> IF Len(x.v) > 0 /\ AllDigits(x.v)
                        THEN Ok(DecimalValue(x.v))
                        ELSE Raise("ValueError")
      [] OTHER -> Raise("TypeError")

\* x[key] for a JSON value x: only an object can be subscripted by a name.
Subscript(x, key) ==
    IF x.t = "obj"
    THEN IF key \in DOMAIN x.v THEN Ok(x.v[key]) ELSE Raise("KeyError")
    ELSE Raise("TypeError")

(***************************************************************************)
(* datetime.fromisoformat on YYYY-MM-DD, optionally followed by a          *)
(* separator and HH:MM:SS or HH:MM:SS.mmm; the value is in milliseconds    *)
(* from 2024-01-01T00:00:00.000.                                           *)
(***************************************************************************)
MsPerDay == 24 * 60 * 60 * 1000

IsLeap(y) == (y % 4 = 0 /\ y % 100 # 0) \/ y % 400 = 0

DaysInMonth(y, m) ==
    CASE m \in {1, 3, 5, 7, 8, 10, 12} -> 31
      [] m \in {4, 6, 9, 11} -> 30
      [] OTHER -> IF IsLeap(y) THEN 29 ELSE 28

RECURSIVE DaysBeforeMonth(_, _)
DaysBeforeMonth(y, m) ==
    IF m <= 1 THEN 0 ELSE DaysBeforeMonth(y, m - 1) + DaysInMonth(y, m - 1)

LeapsBefore(y) == ((y - 1) \div 4) - ((y - 1) \div 100) + ((y - 1) \div 400)

DaysBeforeYear(y) ==
    (y - 2024) * 365 + (LeapsBefore(y) - LeapsBefore(2024))

DateShape(s) ==
    /\ Len(s) >= 10
    /\ AllDigits(SubSeq(s, 1, 4)) /\ s[5] = "-"
    /\ AllDigits(SubSeq(s, 6, 7)) /\ s[8] = "-"
    /\ AllDigits(SubSeq(s, 9, 10))

TimeShape(s) ==
    /\ Len(s) \in {19, 23}
    /\ AllDigits(SubSeq(s, 12, 13)) /\ s[14] = ":"
    /\ AllDigits(SubSeq(s, 15, 16)) /\ s[17] = ":"
    /\ AllDigits(SubSeq(s, 18, 19))
    /\ Len(s) = 23 => (s[20] = "." /\ AllDigits(SubSeq(s, 21, 23)))

FromIsoFormat(x) ==
    IF x.t # "str" THEN Raise("TypeError")
    ELSE LET s == x.v IN
      IF ~(Len(s) \in {10, 19, 23} /\ DateShape(s)) THEN Raise("ValueError")
      ELSE IF Len(s) > 10 /\ ~TimeShape(s) THEN Raise("ValueError")
      ELSE LET y == DecimalValue(SubSeq(s, 1, 4))
               m == DecimalValue(SubSeq(s, 6, 7))
               d == DecimalValue(SubSeq(s, 9, 10))
               hh == IF Len(s) > 10 THEN DecimalValue(SubSeq(s, 12, 13)) ELSE 0
               mi == IF Len(s) > 10 THEN DecimalValue(SubSeq(s, 15, 16)) ELSE 0
               ss == IF Len(s) > 10 THEN DecimalValue(SubSeq(s, 18, 19)) ELSE 0
               ms == IF Len(s) = 23 THEN DecimalValue(SubSeq(s, 21, 23)) ELSE 0
           IN IF y < 1 \/ m < 1 \/ m > 12 \/ d < 1 \/ d > DaysInMonth(y, m)
                 \/ hh > 23 \/ mi > 59 \/ ss > 59
              THEN Raise("ValueError")
              ELSE Ok((DaysBeforeYear(y) + DaysBeforeMonth(y, m) + (d - 1)) * MsPerDay
                      + ((hh * 60 + mi) * 60 + ss) * 1000 + ms)

(***************************************************************************)
(* bson.ObjectId: made from 24 hexadecimal characters, case-insensitive;   *)
(* any other text is InvalidId and a non-text value is a TypeError.  The   *)
(* value is the tuple of its 24 nibbles.  The store gives a new document   *)
(* an ObjectId of its own.                                                 *)
(***************************************************************************)
OidLen == 24

HexChars == Digits \cup {"a", "b", "c", "d", "e", "f", "A", "B", "C", "D", "E", "F"}

HexVal(c) ==
    CASE c \in Digits -> DigitVal(c)
      [] c \in {"a", "A"} -> 10 [] c \in {"b", "B"} -> 11
      [] c \in {"c", "C"} -> 12 [] c \in {"d", "D"} -> 13
      [] c \in {"e", "E"} -> 14 [] c \in {"f", "F"} -> 15

ObjectId(x) ==
    IF x.t # "str" THEN Raise("TypeError")
    ELSE IF Len(x.v) = OidLen /\ \A i \in 1..OidLen : x.v[i] \in HexChars
         THEN Ok([i \in 1..OidLen |-> HexVal(x.v[i])])
         ELSE Raise("InvalidId")

\* The ObjectId the store gives the n-th document of inventory (n < 256).
NewOid(n) ==
    [i \in 1..OidLen |->
        IF i = OidLen THEN n % 16 ELSE IF i = OidLen - 1 THEN n \div 16 ELSE 0]

\* The ObjectId the store gives the n-th document of movement_logs.
NewLogOid(n) == [i \in 1..OidLen |-> IF i = 1 THEN 1 ELSE NewOid(n)[i]]

(***************************************************************************)
(* datetime.now(): the clock may have advanced by d since it was last      *)
(* looked at.                                                              *)
(***************************************************************************)
Now(d) == clock + d

(***************************************************************************)
(* The store: a collection is the sequence of its documents in insertion   *)
(* order.  A write may fail (the store is unreachable).                    *)
(***************************************************************************)
InsertOne(coll, doc) == Append(coll, doc)

RECURSIVE IndexOf(_, _, _, _)
\* find_one({key: value}): the first position at or after i of a document
\* whose field `key` equals `value`; 0 if there is none.
IndexOf(coll, key, value, i) ==
    IF i > Len(coll) THEN 0
    ELSE IF coll[i][key] = value THEN i ELSE IndexOf(coll, key, value, i + 1)

RemoveHead(coll, i) == Tail(coll)

\* delete_one, once the document to delete is found at position i.
RemoveAt(coll, i) == SubSeq(coll, 1, i - 1) \o SubSeq(coll, i + 1, Len(coll))

(***************************************************************************)
(* POST /api/item/add                                                      *)
(***************************************************************************)
required_fields ==
    <<"item_id", "item_name", "category", "dimensions", "weight", "current_location">>

RECURSIVE FirstMissingOffByOne(_, _)
FirstMissingOffByOne(form_data, i) ==
    IF i >= Len(required_fields) THEN 0
    ELSE IF required_fields[i + 1] \notin DOMAIN form_data THEN i
    ELSE FirstMissingOffByOne(form_data, i + 1)

RECURSIVE FirstMissing(_, _)
\* The first required field, from position i on, that the body lacks; 0 if none.
FirstMissing(form_data, i) ==
    IF i > Len(required_fields) THEN 0
    ELSE IF required_fields[i] \notin DOMAIN form_data THEN i
    ELSE FirstMissing(form_data, i + 1)

\* float(form_data['dimensions'][k])
DimensionOf(form_data, k) ==
    LET e == Subscript(form_data["dimensions"], k)
    IN IF e.ok THEN Float(e.v) ELSE e

\* datetime.fromisoformat(form_data['expiry_date']) if form_data.get('expiry_date') else None
ExpiryOf(form_data) ==
    IF Truthy(Get(form_data, "expiry_date"))
    THEN LET e == FromIsoFormat(form_data["expiry_date"])
         IN IF e.ok THEN Ok(Date(e.v)) ELSE e
    ELSE Ok(Null)

\* The coercions of the new_item literal, in order; the first that raises.
Coercions(form_data) ==
    <<DimensionOf(form_data, "length"), DimensionOf(form_data, "width"),
      DimensionOf(form_data, "height"), Float(form_data["weight"]),
      ExpiryOf(form_data)>>

FirstRaise(cs) ==
    IF \A i \in 1..Len(cs) : cs[i].ok THEN 0
    ELSE CHOOSE i \in 1..Len(cs) : ~cs[i].ok /\ \A j \in 1..(i - 1) : cs[j].ok

new_item(form_data, now) ==
    LET cs == Coercions(form_data)
    IN [item_id |-> form_data["item_id"],
        item_name |-> form_data["item_name"],
        category |-> form_data["category"],
        dimensions |-> [length |-> cs[1].v, width |-> cs[2].v, height |-> cs[3].v],
        weight |-> cs[4].v,
        fragility |-> IF "fragility" \in DOMAIN form_data
                      THEN Truthy(form_data["fragility"]) ELSE FALSE,
        expiry_date |-> cs[5].v,
        current_location |-> form_data["current_location"],
        entry_date |-> now]

\* insert_one gives the document its _id.
WithId(doc, oid) ==
    [k \in DOMAIN doc \cup {"_id"} |-> IF k = "_id" THEN oid ELSE doc[k]]

SystemAddLogOut(item, now) ==
    [item_id |-> item.item_id,
     timestamp |-> now,
     movement_type |-> "out",
     location |-> item.current_location,
     order_id |-> "SYSTEM_ADD"]

SystemAddLog(item, now) ==
    [item_id |-> item.item_id,
     timestamp |-> now,
     movement_type |-> "in",
     location |-> item.current_location,
     order_id |-> "SYSTEM_ADD"]

Reply(op, status, message) == [op |-> op, status |-> status, message |-> message]

\* The request is refused before anything is coerced or written.
AddRefused(req) ==
    IF ~req.is_json THEN Reply("add", 400, <<"Request must be JSON">>)
    ELSE LET m == FirstMissing(req.body, 1)
         IN IF m # 0 THEN Reply("add", 400, <<"Missing required field: ", required_fields[m]>>)
            ELSE LET r == FirstRaise(Coercions(req.body))
                 IN IF r # 0 THEN Reply("add", 500, <<Coercions(req.body)[r].exc>>)
                    ELSE Reply("add", 200, <<>>)

\* The two writes of add_item, in order, with no transaction around them:
\* a write that fails raises, and what was written before it stays.
TwoWritesLogFirst(inv, logs, item, log, failAt) ==
    IF failAt = "log"
    THEN [inventory |-> inv, movement_logs |-> logs, raised |-> TRUE]
    ELSE IF failAt = "inventory"
    THEN [inventory |-> inv, movement_logs |-> InsertOne(logs, log), raised |-> TRUE]
    ELSE [inventory |-> InsertOne(inv, item), movement_logs |-> InsertOne(logs, log),
          raised |-> FALSE]

TwoWrites(inv, logs, item, log, failAt) ==
    IF failAt = "inventory"
    THEN [inventory |-> inv, movement_logs |-> logs, raised |-> TRUE]
    ELSE IF failAt = "log"
    THEN [inventory |-> InsertOne(inv, item), movement_logs |-> logs, raised |-> TRUE]
    ELSE [inventory |-> InsertOne(inv, item), movement_logs |-> InsertOne(logs, log),
          raised |-> FALSE]

\* req: the request; failAt: the store write that fails, if it is reached;
\* d1, d2: how far the clock has advanced at each of the two datetime.now().
\* An input that is never consumed is taken at its neutral value.
AddItem(req, failAt, d1, d2) ==
    /\ Len(inventory) < MaxItems
    /\ Len(movement_logs) < MaxLogs
    /\ nextOid <= MaxOid
    /\ Now(d1 + d2) <= MaxClock
    /\ request' = [op |-> "add", is_json |-> req.is_json, body |-> req.body]
    /\ UNCHANGED warehouse_layout
    /\ LET refused == AddRefused(req)
       IN IF refused.status # 200
          THEN /\ failAt = "none" /\ d1 = 0 /\ d2 = 0
               /\ response' = refused
               /\ fault' = "none"
               /\ UNCHANGED <<inventory, movement_logs, clock, nextOid>>
          ELSE LET item == WithId(new_item(req.body, Now(d1)), NewOid(nextOid))
                   now2 == IF failAt = "inventory" THEN Now(d1) ELSE Now(d1 + d2)
                   log == WithId(SystemAddLog(item, now2),
                                 NewLogOid(Len(movement_logs) + 1))
                   w == TwoWrites(inventory, movement_logs, item, log, failAt)
               IN /\ failAt = "inventory" => d2 = 0
                  /\ inventory' = w.inventory
                  /\ movement_logs' = w.movement_logs
                  /\ nextOid' = IF failAt = "inventory" THEN nextOid ELSE nextOid + 1
                  /\ clock' = now2
                  /\ fault' = IF w.raised THEN failAt ELSE "none"
                  /\ response' = IF w.raised THEN Reply("add", 500, <<"StoreError">>)
                                 ELSE Reply("add", 200, <<"Item added successfully">>)

(***************************************************************************)
(* POST /api/item/delete                                                   *)
(***************************************************************************)
\* req.data is the JSON body or the form, whichever the request carries.
DeleteItem(req, failAt) ==
    /\ request' = [op |-> "delete", is_json |-> req.is_json, data |-> req.data]
    /\ UNCHANGED <<movement_logs, warehouse_layout, clock, nextOid>>
    /\ LET item_id == Get(req.data, "item_id")
       IN IF ~Truthy(item_id)
          THEN /\ failAt = "none"
               /\ response' = Reply("delete", 400, <<"Missing item_id parameter">>)
               /\ fault' = "none"
               /\ UNCHANGED inventory
          ELSE LET oid == ObjectId(item_id)
               IN IF ~oid.ok
                  THEN /\ failAt = "none"
                       /\ response' = Reply("delete", 500, <<oid.exc>>)
                       /\ fault' = "none"
                       /\ UNCHANGED inventory
                  ELSE IF failAt = "inventory"
                  THEN /\ response' = Reply("delete", 500, <<"StoreError">>)
                       /\ fault' = "inventory"
                       /\ UNCHANGED inventory
                  ELSE LET i == IndexOf(inventory, "_id", oid.v, 1)
                       IN /\ fault' = "none"
                          /\ IF i = 0
                             THEN /\ response' = Reply("delete", 404, <<"Item not found">>)
                                  /\ UNCHANGED inventory
                             ELSE /\ response' = Reply("delete", 200, <<"Item deleted">>)
                                  /\ inventory' = RemoveAt(inventory, i)

(***************************************************************************)
(* parse_capacity.  A capacity is a native record or text.  Text is read   *)
(* by ast.literal_eval, modelled by what it does on each text the bins of  *)
(* the model carry: it returns the literal the text denotes (of whatever   *)
(* type), or raises SyntaxError (text that is no expression), ValueError   *)
(* (an expression that is no literal) or TypeError (a dict display whose   *)
(* key is unhashable).                                                     *)
(***************************************************************************)
Text(s) == [t |-> "text", s |-> s]

LiteralEval(s) ==
    CASE s = "{'length': 2, 'width': 1, 'height': 1}"
           -> Ok(Obj([length |-> Num(2), width |-> Num(1), height |-> Num(1)]))
      [] s = "{'length': 3, 'width': 1, 'height': 1}"
           -> Ok(Obj([length |-> Num(3), width |-> Num(1), height |-> Num(1)]))
      [] s = "{'length': 2}" -> Ok(Obj([length |-> Num(2)]))
      [] s = "5" -> Ok(Num(5))
      [] s = "{'length': 2, " -> Raise("SyntaxError")
      [] s = "" -> Raise("SyntaxError")
      [] s = "abc" -> Raise("ValueError")
      [] s = "{[1]: 2}" -> Raise("TypeError")

ZeroCapacity == Obj([length |-> Num(0), width |-> Num(0), height |-> Num(0)])

parse_capacity(capacity) ==
    IF capacity.t = "text"
    THEN LET r == LiteralEval(capacity.s)
         IN IF r.ok THEN r
            ELSE IF r.exc \in {"ValueError", "SyntaxError"} THEN Ok(ZeroCapacity)
            ELSE r
    ELSE Ok(capacity)

(***************************************************************************)
(* POST /api/item                                                          *)
(***************************************************************************)
RECURSIVE SplitFrom(_, _, _, _, _)
SplitFrom(s, sep, i, cur, acc) ==
    IF i > Len(s) THEN Append(acc, cur)
    ELSE IF s[i] = sep THEN SplitFrom(s, sep, i + 1, <<>>, Append(acc, cur))
    ELSE SplitFrom(s, sep, i + 1, Append(cur, s[i]), acc)

\* str.split(sep): the pieces between the separators, never fewer than one.
Split(s, sep) == SplitFrom(s, sep, 1, <<>>, <<>>)

RECURSIVE IndexOfBin(_, _, _, _, _)
\* find_one({zone_id, rack_id, bin_id}) on the layout, from position i on.
IndexOfBin(layout, zone, rack, bin, i) ==
    IF i > Len(layout) THEN 0
    ELSE IF layout[i].zone_id = zone /\ layout[i].rack_id = rack
            /\ layout[i].bin_id = bin
         THEN i
         ELSE IndexOfBin(layout, zone, rack, bin, i + 1)

BinForLastParts(layout, loc_parts) ==
    LET n == Len(loc_parts)
    IN IndexOfBin(layout, loc_parts[n - 2], loc_parts[n - 1], loc_parts[n], 1)

\* The bin that loc_parts[0], loc_parts[1], loc_parts[2] name (0: none).
BinFor(layout, loc_parts) ==
    IndexOfBin(layout, loc_parts[1], loc_parts[2], loc_parts[3], 1)

\* sort(key, -1): insertion keeps the documents in descending order of
\* their field `key`; the store does not say which of two documents with
\* the same value comes first (tieFirst).
RECURSIVE InsertAsc(_, _, _, _)
InsertAsc(sorted, doc, key, tieFirst) ==
    IF sorted = <<>> THEN <<doc>>
    ELSE IF \/ Head(sorted)[key] > doc[key]
            \/ (tieFirst /\ Head(sorted)[key] = doc[key])
         THEN <<doc>> \o sorted
         ELSE <<Head(sorted)>> \o InsertAsc(Tail(sorted), doc, key, tieFirst)

RECURSIVE InsertDesc(_, _, _, _)
InsertDesc(sorted, doc, key, tieFirst) ==
    IF sorted = <<>> THEN <<doc>>
    ELSE IF \/ Head(sorted)[key] < doc[key]
            \/ (tieFirst /\ Head(sorted)[key] = doc[key])
         THEN <<doc>> \o sorted
         ELSE <<Head(sorted)>> \o InsertDesc(Tail(sorted), doc, key, tieFirst)

RECURSIVE SortDesc(_, _, _)
SortDesc(docs, key, tieFirst) ==
    IF docs = <<>> THEN <<>>
    ELSE InsertDesc(SortDesc(SubSeq(docs, 1, Len(docs) - 1), key, tieFirst),
                    docs[Len(docs)], key, tieFirst)

HistoryLimit == 5

Limit(docs, n) == SubSeq(docs, 1, IF Len(docs) < n THEN Len(docs) ELSE n)

\* find({"item_id": id}).sort("timestamp", -1).limit(5)
MovementHistory(logs, id, tieFirst) ==
    LET Mine(doc) == doc.item_id = id
    IN Limit(SortDesc(SelectSeq(logs, Mine), "timestamp", tieFirst), HistoryLimit)

\* The bin with its capacity normalised, when it has one.
BinDetails(bin) ==
    IF "capacity" \in DOMAIN bin
    THEN LET c == parse_capacity(bin.capacity)
         IN IF c.ok THEN Ok([bin EXCEPT !.capacity = c.v]) ELSE c
    ELSE Ok(bin)

\* req.data: the JSON body; tieFirst: how the store orders equal timestamps.
GetItem(req, tieFirst) ==
    /\ request' = [op |-> "get", data |-> req.data]
    /\ fault' = "none"
    /\ UNCHANGED <<inventory, movement_logs, warehouse_layout, clock, nextOid>>
    /\ IF DOMAIN req.data = {} \/ "item_name" \notin DOMAIN req.data
       THEN response' = Reply("get", 400, <<"Missing item_name parameter">>)
       ELSE LET i == IndexOf(inventory, "item_name", req.data["item_name"], 1)
            IN IF i = 0
               THEN response' = Reply("get", 404, <<"Item not found">>)
               ELSE LET item == inventory[i]
                        loc_parts == IF item.current_location.t = "str"
                                     THEN Split(item.current_location.v, "-")
                                     ELSE <<>>
                    IN IF item.current_location.t # "str"
                       THEN response' = Reply("get", 500, <<"AttributeError">>)
                       ELSE IF Len(loc_parts) < 3
                       THEN response' = Reply("get", 500, <<"IndexError">>)
                       ELSE LET b == BinFor(warehouse_layout, loc_parts)
                                bin_data == IF b = 0 THEN Ok(Null)
                                            ELSE BinDetails(warehouse_layout[b])
                            IN IF ~bin_data.ok
                               THEN response' = Reply("get", 500, <<bin_data.exc>>)
                               ELSE response' =
                                      [op |-> "get", status |-> 200, message |-> <<>>,
                                       data |-> [item |-> item,
                                                 bin_details |-> bin_data.v,
                                                 movement_history |->
                                                    MovementHistory(movement_logs,
                                                                    item.item_id, tieFirst)]]

(***************************************************************************)
(* The utilization arithmetic of the dashboard and of the statistics.      *)
(* current_utilization is a fraction, kept here in hundredths (150 is      *)
(* 1.5), so used capacity is in hundredths of a volume unit and            *)
(* (used/total)*100 is the exact quotient num/den of the record Percent    *)
(* returns; the response carries it formatted to one decimal place.        *)
(***************************************************************************)
\* capacity['length'] * capacity['width'] * capacity['height']
Volume(capacity) ==
    LET l == Subscript(capacity, "length")
        w == Subscript(capacity, "width")
        h == Subscript(capacity, "height")
    IN IF ~l.ok THEN l ELSE IF ~w.ok THEN w ELSE IF ~h.ok THEN h
       ELSE Ok(l.v.v * w.v.v * h.v.v)

\* parse_capacity(b['capacity']), then the volume.
BinVolume(b) ==
    LET c == parse_capacity(b.capacity)
    IN IF c.ok THEN Volume(c.v) ELSE c

UtilizationOfDefaultOne(b) ==
    IF "current_utilization" \in DOMAIN b THEN b.current_utilization ELSE 100

\* b.get('current_utilization', 0)
UtilizationOf(b) ==
    IF "current_utilization" \in DOMAIN b THEN b.current_utilization ELSE 0

RECURSIVE Aggregate(_, _, _, _)
\* The loop over the bins from position i on, with the sums so far; the
\* first bin whose capacity cannot be used raises.
Aggregate(bins, i, total, used) ==
    IF i > Len(bins) THEN Ok([total |-> total, used |-> used])
    ELSE LET vol == BinVolume(bins[i])
         IN IF ~vol.ok THEN vol
            ELSE Aggregate(bins, i + 1, total + vol.v,
                           used + vol.v * UtilizationOf(bins[i]))

\* (used/total)*100 if total > 0 else 0
Percent(used, total) ==
    IF total > 0 THEN [num |-> used, den |-> total] ELSE [num |-> 0, den |-> 1]

DigitChar(n) == CHOOSE c \in Digits : DigitVal(c) = n

RECURSIVE DecimalText(_)
\* The decimal digits of a natural number.
DecimalText(n) ==
    IF n < 10 THEN <<DigitChar(n)>>
    ELSE DecimalText(n \div 10) \o <<DigitChar(n % 10)>>

\* f"{utilization:.1f}" for a quotient that is not negative: the nearest
\* tenth, a tie going to the even digit.
FormatOneDecimal(pct) ==
    LET q == (pct.num * 10) \div pct.den
        r == (pct.num * 10) % pct.den
        tenths == IF 2 * r > pct.den \/ (2 * r = pct.den /\ q % 2 = 1) THEN q + 1 ELSE q
    IN DecimalText(tenths \div 10) \o <<".">> \o DecimalText(tenths % 10)

RECURSIVE Distinct(_, _, _)
\* distinct(key): the values of the field, each once, in order of appearance.
Distinct(coll, key, i) ==
    IF i > Len(coll) THEN <<>>
    ELSE LET rest == Distinct(coll, key, i + 1)
             NotIt(v) == v # coll[i][key]
         IN <<coll[i][key]>> \o SelectSeq(rest, NotIt)

(***************************************************************************)
(* GET /                                                                   *)
(***************************************************************************)
DashboardLimit == 10

Dashboard(tieFirst) ==
    /\ request' = [op |-> "dashboard"]
    /\ fault' = "none"
    /\ UNCHANGED <<inventory, movement_logs, warehouse_layout, clock, nextOid>>
    /\ LET items == Limit(SortDesc(inventory, "entry_date", tieFirst), DashboardLimit)
           zones == Distinct(warehouse_layout, "zone_id", 1)
           sums == Aggregate(warehouse_layout, 1, 0, 0)
       IN IF ~sums.ok
          THEN response' = Reply("dashboard", 500, <<sums.exc>>)
          ELSE response' =
                 [op |-> "dashboard", status |-> 200, message |-> <<>>,
                  items |-> items, total_items |-> Len(inventory), zones |-> zones,
                  total_capacity |-> sums.v.total, used_capacity |-> sums.v.used,
                  utilization |-> Percent(sums.v.used, sums.v.total),
                  utilization_text |->
                      FormatOneDecimal(Percent(sums.v.used, sums.v.total)) \o <<"%">>]

(***************************************************************************)
(* GET /api/warehouse/stats                                                *)
(***************************************************************************)
ZoneBins(layout, zone) ==
    LET InZone(b) == b.zone_id = zone IN SelectSeq(layout, InZone)

\* One entry of `zones`, or the exception the zone's bins raise.
ZoneEntry(layout, zone) ==
    LET zone_bins == ZoneBins(layout, zone)
        sums == Aggregate(zone_bins, 1, 0, 0)
    IN IF ~sums.ok THEN sums
       ELSE Ok([name |-> zone, zone_cap |-> sums.v.total, zone_used |-> sums.v.used,
                utilization |-> Percent(sums.v.used, sums.v.total),
                utilization_text |->
                    FormatOneDecimal(Percent(sums.v.used, sums.v.total)),
                bins |-> Len(zone_bins)])

ZoneEntries(layout) ==
    LET names == Distinct(layout, "zone_id", 1)
    IN [k \in 1..Len(names) |-> ZoneEntry(layout, names[k])]

\* {"$group": {"_id": "$category", "count": {"$sum": 1}}}, {"$sort": {"count": -1}}
Categories(inv, tieFirst) ==
    LET cats == Distinct(inv, "category", 1)
        CountOf(c) == Cardinality({i \in 1..Len(inv) : inv[i].category = c})
    IN SortDesc([k \in 1..Len(cats) |-> [_id |-> cats[k], count |-> CountOf(cats[k])]],
                "count", tieFirst)

SevenDays == 7 * MsPerDay

\* count_documents({"expiry_date": {"$lt": upper, "$gte": lower}}): a
\* document with no expiry date matches no date range.
CountExpiring(inv, lower, upper) ==
    Cardinality({i \in 1..Len(inv) :
        /\ inv[i].expiry_date.t = "date"
        /\ inv[i].expiry_date.v < upper
        /\ inv[i].expiry_date.v >= lower})

\* The query names "$lt" before "$gte": the upper bound is taken from the
\* first datetime.now(), the lower bound from the second.
ExpiringSoon(inv, now1, now2) == CountExpiring(inv, now2, now1 + SevenDays)

\* d1, d2: how far the clock has advanced at each of the two datetime.now().
Stats(d1, d2, tieFirst) ==
    /\ request' = [op |-> "stats"]
    /\ fault' = "none"
    /\ UNCHANGED <<inventory, movement_logs, warehouse_layout, nextOid>>
    /\ LET zones == ZoneEntries(warehouse_layout)
       IN IF \E k \in 1..Len(zones) : ~zones[k].ok
          THEN /\ d1 = 0 /\ d2 = 0
               /\ UNCHANGED clock
               /\ response' =
                    Reply("stats", 500,
                          <<zones[CHOOSE k \in 1..Len(zones) :
                                     ~zones[k].ok /\ \A j \in 1..(k - 1) : zones[j].ok].exc>>)
          ELSE /\ Now(d1 + d2) <= MaxClock
               /\ clock' = Now(d1 + d2)
               /\ response' =
                    [op |-> "stats", status |-> 200, message |-> <<>>,
                     zones |-> [k \in 1..Len(zones) |-> zones[k].v],
                     categories |-> Categories(inventory, tieFirst),
                     total_items |-> Len(inventory),
                     expiring_soon |-> ExpiringSoon(inventory, Now(d1), Now(d1 + d2))]

(***************************************************************************)
(* Requests.                                                               *)
(***************************************************************************)
ItemIds == {Str(<<"i", "1">>), Str(<<"i", "2">>)}
Name1 == Str(<<"n", "1">>)
Name2 == Str(<<"n", "2">>)
Loc3 == Str(<<"A", "-", "1", "-", "1">>)
GoodDims == Obj([length |-> Num(2), width |-> Str(<<"3">>), height |-> Num(1)])

Body(id, name, loc, dims, weight) ==
    [item_id |-> id, item_name |-> name, category |-> Str(<<"c">>),
     dimensions |-> dims, weight |-> weight, current_location |-> loc]

WithField(b, k, v) == [x \in DOMAIN b \cup {k} |-> IF x = k THEN v ELSE b[x]]
Without(b, ks) == [x \in DOMAIN b \ ks |-> b[x]]

BaseBody == Body(Str(<<"i", "1">>), Name1, Loc3, GoodDims, Num(2))

\* 2024-01-01T00:00:00.00m, m milliseconds after the epoch of the model.
IsoText(day, m) ==
    <<"2", "0", "2", "4", "-", "0", "1", "-", "0", day, "T",
      "0", "0", ":", "0", "0", ":", "0", "0", ".", "0", "0", m>>

ExpiryInputs ==
    {Null, Str(<<>>), Str(<<"s", "o", "o", "n">>),
     Str(<<"2", "0", "2", "4", "-", "1", "3", "-", "0", "1">>)}

MissingSets ==
    {{"item_id"}, {"category"}, {"current_location"}, {"item_id", "weight"},
     {required_fields[i] : i \in 1..Len(required_fields)}}

BadDims ==
    {Obj([length |-> Num(2), width |-> Str(<<"x">>), height |-> Num(1)]),
     Obj([length |-> Num(2), width |-> Num(3)]),
     Str(<<"2">>), Null}

MutationBodies ==
    {Body(id, Name1, Loc3, GoodDims, Num(2)) : id \in ItemIds}
      \cup {Body(Str(<<"i", "1">>), Name1, Loc3, GoodDims, Str(<<"2">>))}
      \cup {WithField(BaseBody, "expiry_date", e) : e \in ExpiryInputs}
      \cup {WithField(WithField(BaseBody, "fragility", Num(1)), "expiry_date",
                      Str(<<"2", "0", "2", "4", "-", "0", "1", "-", "0", "3">>))}
      \cup {Without(BaseBody, ks) : ks \in MissingSets}
      \cup {Without(WithField(BaseBody, "dimensions", Null), {"weight"})}
      \cup {WithField(BaseBody, "dimensions", d) : d \in BadDims}
      \cup {WithField(BaseBody, "weight", w) : w \in {Str(<<"x">>), Null}}

AddRequests ==
    {[is_json |-> TRUE, body |-> b] : b \in MutationBodies}
      \cup {[is_json |-> FALSE, body |-> <<>>]}

HexDigit(n) ==
    CASE n < 10 -> CHOOSE c \in Digits : DigitVal(c) = n
      [] n = 10 -> "A" [] n = 11 -> "b" [] n = 12 -> "C"
      [] n = 13 -> "d" [] n = 14 -> "E" [] n = 15 -> "f"

\* The hex text of the n-th ObjectId.
OidText(n) == [i \in 1..OidLen |-> IF i = OidLen THEN HexDigit(n) ELSE "0"]

IdInputs ==
    {Str(OidText(n)) : n \in 1..(MaxOid + 1)}
      \cup {Str(<<>>), Null, Str(<<"x", "y", "z">>),
            Str([i \in 1..OidLen |-> IF i = 1 THEN "g" ELSE "0"]),
            Str([i \in 1..(OidLen + 1) |-> "0"])}

DeleteRequests ==
    {[is_json |-> TRUE, data |-> [item_id |-> x]] : x \in IdInputs}
      \cup {[is_json |-> TRUE, data |-> <<>>], [is_json |-> FALSE, data |-> <<>>],
            [is_json |-> FALSE, data |-> [item_id |-> Str(OidText(1))]]}

Faults == {"none", "inventory", "log"}

DefaultLayout ==
    <<[zone_id |-> <<"A">>, rack_id |-> <<"1">>, bin_id |-> <<"1">>,
       capacity |-> Obj([length |-> Num(2), width |-> Num(1), height |-> Num(1)]),
       current_utilization |-> 50]>>

NoRequest == [op |-> "none"]

\* The store before the first request: empty collections, one bin.
Init ==
    /\ inventory = <<>>
    /\ movement_logs = <<>>
    /\ warehouse_layout = DefaultLayout
    /\ clock = 0
    /\ nextOid = 1
    /\ request = NoRequest
    /\ fault = "none"
    /\ response = Reply("none", 0, <<>>)

(***************************************************************************)
(* Add-item requests of every shape, with store failures.                  *)
(***************************************************************************)
Next ==
    \E req \in AddRequests, failAt \in Faults, d2 \in 0..1 :
        AddItem(req, failAt, 0, d2)

Spec == Init /\ [][Next]_vars

(***************************************************************************)
(* Add-item and delete-item requests interleaved.                          *)
(***************************************************************************)
PlainAddRequests ==
    {[is_json |-> TRUE, body |-> Body(id, Name1, Loc3, GoodDims, Num(2))] : id \in ItemIds}

NextMutation ==
    \/ \E req \in PlainAddRequests : AddItem(req, "none", 0, 0)
    \/ \E req \in DeleteRequests, failAt \in {"none", "inventory"} :
          DeleteItem(req, failAt)

SpecMutation == Init /\ [][NextMutation]_vars

(***************************************************************************)
(* Item lookup on a store that already holds movement logs (written by     *)
(* earlier runs and by other writers, in no particular timestamp order).   *)
(***************************************************************************)
Loc2 == Str(<<"A", "-", "1">>)
Loc4 == Str(<<"A", "-", "1", "-", "1", "-", "2">>)
LocB == Str(<<"B", "-", "1", "-", "1">>)
LocC == Str(<<"C", "-", "1", "-", "1">>)

LookupLayout ==
    <<[zone_id |-> <<"A">>, rack_id |-> <<"1">>, bin_id |-> <<"1">>,
       capacity |-> Text("{'length': 2, 'width': 1, 'height': 1}"),
       current_utilization |-> 50],
      [zone_id |-> <<"B">>, rack_id |-> <<"1">>, bin_id |-> <<"1">>,
       capacity |-> Text("{[1]: 2}"), current_utilization |-> 50],
      [zone_id |-> <<"C">>, rack_id |-> <<"1">>, bin_id |-> <<"1">>,
       capacity |-> Text("abc"), current_utilization |-> 50],
      [zone_id |-> <<"1">>, rack_id |-> <<"1">>, bin_id |-> <<"2">>,
       capacity |-> Obj([length |-> Num(1), width |-> Num(1), height |-> Num(1)]),
       current_utilization |-> 0]>>

PreLogs(n, shift) ==
    [j \in 1..n |->
        [_id |-> NewLogOid(j),
         item_id |-> IF j = 3 THEN Str(<<"i", "2">>) ELSE Str(<<"i", "1">>),
         timestamp |-> (j + shift) % 2,
         movement_type |-> IF j % 2 = 0 THEN "out" ELSE "in",
         location |-> Loc3,
         order_id |-> "ORD"]]

InitLookup ==
    /\ inventory = <<>>
    /\ \E n \in {0, MaxPreLogs}, shift \in 0..1 : movement_logs = PreLogs(n, shift)
    /\ warehouse_layout = LookupLayout
    /\ clock = 0
    /\ nextOid = 1
    /\ request = NoRequest
    /\ fault = "none"
    /\ response = Reply("none", 0, <<>>)

LookupAddRequests ==
    {[is_json |-> TRUE, body |-> Body(Str(<<"i", "1">>), Name1, loc, GoodDims, Num(2))] :
        loc \in {Loc3, Loc2, Loc4, LocB, LocC}}
      \cup {[is_json |-> TRUE, body |-> Body(Str(<<"i", "2">>), Name1, Loc3, GoodDims, Num(2))]}

GetRequests ==
    {[data |-> [item_name |-> Name1]], [data |-> [item_name |-> Name2]],
     [data |-> <<>>], [data |-> [item_id |-> Str(<<"i", "1">>)]]}

NextLookup ==
    \/ \E req \in LookupAddRequests, d2 \in 0..1 : AddItem(req, "none", 0, d2)
    \/ \E req \in GetRequests, tieFirst \in BOOLEAN : GetItem(req, tieFirst)

SpecLookup == InitLookup /\ [][NextLookup]_vars

(***************************************************************************)
(* The statistics over items with expiry dates around the 7-day window.    *)
(***************************************************************************)
Day1 == <<"2", "0", "2", "4", "-", "0", "1", "-", "0", "1">>
Day8 == <<"2", "0", "2", "4", "-", "0", "1", "-", "0", "8">>

StatsExpiryInputs ==
    {Str(Day1), Str(IsoText("1", "1")), Str(Day8), Str(IsoText("8", "1"))}

StatsAddRequests ==
    {[is_json |-> TRUE, body |-> WithField(BaseBody, "expiry_date", e)] :
        e \in StatsExpiryInputs}
      \cup {[is_json |-> TRUE, body |-> BaseBody]}

NextStats ==
    \/ \E req \in StatsAddRequests : AddItem(req, "none", 0, 0)
    \/ \E d1 \in 0..1, d2 \in 0..1, tieFirst \in BOOLEAN : Stats(d1, d2, tieFirst)

SpecStats == Init /\ [][NextStats]_vars

(***************************************************************************)
(* The dashboard and the statistics over layouts of up to MaxBins bins,    *)
(* whose capacities are native records or text of every kind.              *)
(***************************************************************************)
Bin(zone, bin, capacity) ==
    [zone_id |-> zone, rack_id |-> <<"1">>, bin_id |-> bin, capacity |-> capacity]

BinChoices ==
    {WithField(Bin(<<"A">>, <<"1">>, Obj([length |-> Num(10), width |-> Num(1), height |-> Num(1)])),
               "current_utilization", 50),
     WithField(Bin(<<"B">>, <<"1">>, Obj([length |-> Num(5), width |-> Num(2), height |-> Num(2)])),
               "current_utilization", 25),
     WithField(Bin(<<"A">>, <<"2">>, Text("{'length': 3, 'width': 1, 'height': 1}")),
               "current_utilization", 150),
     Bin(<<"B">>, <<"2">>, Text("{'length': 2, 'width': 1, 'height': 1}")),
     WithField(Bin(<<"A">>, <<"3">>, ZeroCapacity), "current_utilization", 50),
     WithField(Bin(<<"B">>, <<"3">>, Text("abc")), "current_utilization", 50),
     WithField(Bin(<<"A">>, <<"4">>, Text("{'length': 2, ")), "current_utilization", 100),
     WithField(Bin(<<"B">>, <<"4">>, Text("{[1]: 2}")), "current_utilization", 50),
     WithField(Bin(<<"A">>, <<"5">>, Text("5")), "current_utilization", 50),
     WithField(Bin(<<"B">>, <<"5">>, Text("{'length': 2}")), "current_utilization", 50)}

Layouts ==
    UNION {[1..n -> BinChoices] : n \in 0..MaxBins}

InitBins ==
    /\ inventory = <<>>
    /\ movement_logs = <<>>
    /\ warehouse_layout \in Layouts
    /\ clock = 0
    /\ nextOid = 1
    /\ request = NoRequest
    /\ fault = "none"
    /\ response = Reply("none", 0, <<>>)

NextBins ==
    \/ \E tieFirst \in BOOLEAN : Dashboard(tieFirst)
    \/ \E tieFirst \in BOOLEAN : Stats(0, 0, tieFirst)

SpecBins == InitBins /\ [][NextBins]_vars

(***************************************************************************)
(* What a step did to a collection.                                        *)
(***************************************************************************)
Last(q) == q[Len(q)]

\* q2 is q1 with exactly one document added (at the end).
OneAdded(q1, q2) == Len(q2) = Len(q1) + 1 /\ SubSeq(q2, 1, Len(q1)) = q1

\* q2 is q1 with exactly the document at position i taken out.
OneRemoved(q1, q2, i) ==
    /\ Len(q2) = Len(q1) - 1
    /\ \A j \in 1..Len(q2) : q2[j] = IF j < i THEN q1[j] ELSE q1[j + 1]

RequiredSet == {required_fields[i] : i \in 1..Len(required_fields)}

Complete(body) == RequiredSet \subseteq DOMAIN body

NumberOk(x) == Float(x).ok

DimOk(body, k) ==
    LET e == Subscript(body["dimensions"], k) IN e.ok /\ NumberOk(e.v)

NumbersOk(body) ==
    /\ \A k \in {"length", "width", "height"} : DimOk(body, k)
    /\ NumberOk(body["weight"])

ExpiryGiven(body) == "expiry_date" \in DOMAIN body /\ body["expiry_date"] # Null

IsAdd == request.op = "add" /\ request.is_json

(***************************************************************************)
(* C1.  An add-item request whose JSON body carries the six required       *)
(* fields with coercible values (numbers or numeric text for the           *)
(* dimensions and the weight, no expiry date or an ISO one), and during    *)
(* which no store write fails, adds exactly one record to inventory and    *)
(* exactly one to movement_logs; the log record has movement_type "in",    *)
(* order_id "SYSTEM_ADD", the item's item_id and the item's                *)
(* current_location, and the response is a success.                        *)
(***************************************************************************)
C1_Case ==
    /\ IsAdd /\ Complete(request.body) /\ NumbersOk(request.body)
    /\ ExpiryGiven(request.body) => FromIsoFormat(request.body["expiry_date"]).ok
    /\ fault = "none"

C1_AddCreatesItemAndLog ==
    [][C1_Case' =>
         /\ response'.status = 200
         /\ OneAdded(inventory, inventory')
         /\ OneAdded(movement_logs, movement_logs')
         /\ Last(inventory').item_id = request'.body["item_id"]
         /\ Last(inventory').current_location = request'.body["current_location"]
         /\ Last(movement_logs').movement_type = "in"
         /\ Last(movement_logs').order_id = "SYSTEM_ADD"
         /\ Last(movement_logs').item_id = request'.body["item_id"]
         /\ Last(movement_logs').location = request'.body["current_location"]]_vars

C1_Witness ==
    /\ C1_Case /\ response.status = 200
    /\ Len(inventory) = 2 /\ Len(movement_logs) = 2
    /\ "expiry_date" \in DOMAIN request.body /\ Last(inventory).expiry_date.t = "date"

(***************************************************************************)
(* C2.  An add-item request that fails validation or coercion writes       *)
(* nothing: a missing required field gives 400 with a message naming a     *)
(* missing field, and a dimension or weight that is no number, or an       *)
(* expiry date that is not ISO-8601, gives 500; inventory and              *)
(* movement_logs are unchanged in both cases.                              *)
(***************************************************************************)
NothingWritten == inventory' = inventory /\ movement_logs' = movement_logs

C2_MissingGives400 ==
    (IsAdd' /\ ~Complete(request'.body)) =>
        /\ response'.status = 400
        /\ Len(response'.message) = 2
        /\ response'.message[1] = "Missing required field: "
        /\ response'.message[2] \in RequiredSet \ DOMAIN request'.body
        /\ NothingWritten

\* C2 as the claim states it: any expiry_date that is not ISO-8601 gives 500
\* (no store write failing).
C2_FailedAddWritesNothing_Original ==
    [][/\ C2_MissingGives400
       /\ (/\ IsAdd' /\ Complete(request'.body) /\ fault' = "none"
           /\ \/ ~NumbersOk(request'.body)
              \/ /\ ExpiryGiven(request'.body)
                 /\ ~FromIsoFormat(request'.body["expiry_date"]).ok)
          => (response'.status = 500 /\ NothingWritten)]_vars

\* C2 as amended: an expiry_date that is empty (false in Python) counts as
\* absent; only a non-empty expiry_date that is not ISO-8601 gives 500.
C2_FailedAddWritesNothing ==
    [][/\ C2_MissingGives400
       /\ (/\ IsAdd' /\ Complete(request'.body)
           /\ \/ ~NumbersOk(request'.body)
              \/ /\ ExpiryGiven(request'.body)
                 /\ Truthy(request'.body["expiry_date"])
                 /\ ~FromIsoFormat(request'.body["expiry_date"]).ok)
          => (response'.status = 500 /\ NothingWritten)
       /\ (/\ IsAdd' /\ Complete(request'.body) /\ NumbersOk(request'.body)
           /\ ExpiryGiven(request'.body) /\ ~Truthy(request'.body["expiry_date"])
           /\ fault' = "none")
          => (response'.status = 200 /\ Last(inventory').expiry_date = Null)]_vars

C2_Witness ==
    /\ IsAdd /\ response.status = 400
    /\ response.message = <<"Missing required field: ", "category">>
    /\ "item_id" \in DOMAIN request.body
    /\ Len(inventory) = 1

(***************************************************************************)
(* C9.  Add-item writes the item, then the log, with no transaction: a     *)
(* "SYSTEM_ADD" log entry is written only in a step that also inserted     *)
(* its item (stamped no later than the log entry); a failure of the item   *)
(* insert gives 500 and writes nothing; a failure of the log insert gives  *)
(* 500 while the item stays in inventory with no log entry.                *)
(***************************************************************************)
C9_ItemThenLog ==
    [][/\ (request'.op = "add" /\ fault' = "inventory")
            => (response'.status = 500 /\ NothingWritten)
       /\ (request'.op = "add" /\ fault' = "log")
            => /\ response'.status = 500
               /\ OneAdded(inventory, inventory')
               /\ Last(inventory').item_id = request'.body["item_id"]
               /\ movement_logs' = movement_logs
       /\ movement_logs' # movement_logs
            => /\ OneAdded(movement_logs, movement_logs')
               /\ OneAdded(inventory, inventory')
               /\ Last(movement_logs').order_id = "SYSTEM_ADD"
               /\ Last(movement_logs').item_id = Last(inventory').item_id
               /\ Last(inventory').entry_date <= Last(movement_logs').timestamp]_vars

C9_Witness ==
    /\ request.op = "add" /\ fault = "log" /\ response.status = 500
    /\ Len(inventory) = 2 /\ Len(movement_logs) = 1
    /\ Last(inventory).item_id # Last(movement_logs).item_id

(***************************************************************************)
(* C3.  Delete-item given the internal identifier of an inventory record   *)
(* removes exactly that record and returns success; given an identifier    *)
(* that matches no record it returns 404 and leaves inventory as it was;   *)
(* given no identifier it returns 400 and leaves inventory as it was;      *)
(* movement_logs is never changed.                                         *)
(***************************************************************************)
IsDelete == request.op = "delete"

GivenId == Get(request.data, "item_id")

\* The positions of the inventory records (before the step) that the
\* identifier of the request (after the step) denotes.
Matching ==
    {i \in 1..Len(inventory) :
        ObjectId(GivenId').ok /\ inventory[i]["_id"] = ObjectId(GivenId').v}

C3_Common ==
    /\ IsDelete' => movement_logs' = movement_logs
    /\ (IsDelete' /\ ~Truthy(GivenId'))
          => (response'.status = 400 /\ inventory' = inventory)
    /\ (IsDelete' /\ fault' = "none" /\ Matching # {})
          => /\ response'.status = 200
             /\ \E i \in Matching : OneRemoved(inventory, inventory', i)

\* C3 as the claim states it: every identifier that matches no record gives 404.
C3_Delete_Original ==
    [][/\ C3_Common
       /\ (IsDelete' /\ fault' = "none" /\ Truthy(GivenId') /\ Matching = {})
             => (response'.status = 404 /\ inventory' = inventory)]_vars

\* C3 as amended: a well-formed identifier (24 hexadecimal characters) that
\* matches no record gives 404; any other non-empty identifier gives 500.
\* Inventory is unchanged in both cases.
C3_Delete ==
    [][/\ C3_Common
       /\ (IsDelete' /\ fault' = "none" /\ ObjectId(GivenId').ok /\ Matching = {})
             => (response'.status = 404 /\ inventory' = inventory)
       /\ (IsDelete' /\ Truthy(GivenId') /\ ~ObjectId(GivenId').ok)
             => (response'.status = 500 /\ inventory' = inventory)]_vars

C3_Witness ==
    /\ IsDelete /\ response.status = 200
    /\ nextOid = 3 /\ Len(inventory) = 1 /\ inventory[1]["_id"] = NewOid(1)
    /\ Len(movement_logs) = 2

(***************************************************************************)
(* C10.  item_id is a unique key of inventory: after any sequence of       *)
(* add-item and delete-item requests no two inventory records have the     *)
(* same item_id.                                                           *)
(***************************************************************************)
C10_ItemIdUnique ==
    \A i, j \in 1..Len(inventory) :
        i # j => inventory[i].item_id # inventory[j].item_id

(***************************************************************************)
(* C6.  Item lookup with a name that matches no inventory record returns   *)
(* 404 with no record; with a name that matches a record it returns that   *)
(* record with its movement history: only movement_logs entries with the   *)
(* item's item_id, at most 5 of them, by timestamp descending, omitting no *)
(* entry more recent than one it includes.  Lookup changes no collection.  *)
(***************************************************************************)
IsGet == request.op = "get" /\ "item_name" \in DOMAIN request.data

\* The inventory positions whose record has the name asked for.
Named == {i \in 1..Len(inventory) : inventory[i].item_name = request.data["item_name"]}

FirstNamed == CHOOSE i \in Named : \A j \in Named : i <= j

Range(q) == {q[k] : k \in 1..Len(q)}

HistoryOk(h, id, logs) ==
    LET mine == {j \in 1..Len(logs) : logs[j].item_id = id}
    IN /\ Len(h) <= 5
       /\ Len(h) = IF Cardinality(mine) < 5 THEN Cardinality(mine) ELSE 5
       /\ \A k \in 1..Len(h) : h[k].item_id = id /\ h[k] \in Range(logs)
       /\ \A k, l \in 1..Len(h) : k < l =>
             (h[k] # h[l] /\ h[k].timestamp >= h[l].timestamp)
       /\ \A j \in mine : logs[j] \notin Range(h) =>
             \A k \in 1..Len(h) : logs[j].timestamp <= h[k].timestamp

ReadOnly ==
    /\ inventory' = inventory
    /\ movement_logs' = movement_logs
    /\ warehouse_layout' = warehouse_layout

NotFound == response.status = 404 /\ "data" \notin DOMAIN response

FoundWithHistory ==
    /\ response.status = 200
    /\ response.data.item = inventory[FirstNamed]
    /\ HistoryOk(response.data.movement_history, response.data.item.item_id,
                 movement_logs)

PartsOf(item) == Split(item.current_location.v, "-")

\* The layout position of the first bin that the first three parts name.
ExpectedBin(item) ==
    LET p == PartsOf(item)
        S == {j \in 1..Len(warehouse_layout) :
                 /\ warehouse_layout[j].zone_id = p[1]
                 /\ warehouse_layout[j].rack_id = p[2]
                 /\ warehouse_layout[j].bin_id = p[3]}
    IN IF S = {} THEN 0 ELSE CHOOSE j \in S : \A k \in S : j <= k

\* Normalising the capacity of the item's bin raises.
BinRaises(item) ==
    /\ Len(PartsOf(item)) >= 3
    /\ ExpectedBin(item) # 0
    /\ ~parse_capacity(warehouse_layout[ExpectedBin(item)].capacity).ok

\* C6 as the claim states it: a name that matches a record always returns it.
C6_Lookup_Original ==
    [][IsGet' =>
         /\ ReadOnly
         /\ Named' = {} => NotFound'
         /\ Named' # {} => FoundWithHistory']_vars

\* C6 as amended: a name that matches a record returns the first such
\* record with its history, unless that record's current_location has
\* fewer than 3 parts or normalising its bin's capacity raises: the
\* response is then 500 with no record.
C6_Lookup ==
    [][IsGet' =>
         /\ ReadOnly
         /\ Named' = {} => NotFound'
         /\ Named' # {} =>
              IF Len(PartsOf(inventory[FirstNamed'])) < 3 \/ BinRaises(inventory[FirstNamed'])
              THEN response'.status = 500 /\ "data" \notin DOMAIN response'
              ELSE FoundWithHistory']_vars

C6_Witness ==
    /\ IsGet /\ response.status = 200
    /\ Len(response.data.movement_history) = 5
    /\ Cardinality({j \in 1..Len(movement_logs) :
                       movement_logs[j].item_id = response.data.item.item_id}) > 5
    /\ \E k \in 1..5 : response.data.movement_history[k].order_id = "SYSTEM_ADD"
    /\ \E j \in 1..Len(movement_logs) :
          /\ movement_logs[j].item_id # response.data.item.item_id
          /\ movement_logs[j].timestamp > response.data.movement_history[5].timestamp

(***************************************************************************)
(* C8.  In item lookup, a found item whose current_location split on '-'   *)
(* does not yield exactly 3 parts makes the request fail with 500 and no   *)
(* item data; only a location of exactly 3 parts leads to a bin lookup.    *)
(***************************************************************************)
Found == IsGet /\ Named # {}

\* C8 as the claim states it: fewer or more than 3 parts gives 500.
C8_Location_Original ==
    [][(Found' /\ Len(PartsOf(inventory[FirstNamed'])) # 3)
          => (response'.status = 500 /\ "data" \notin DOMAIN response')]_vars

\* C8 as amended: fewer than 3 parts gives 500 with no item data; 3 or more
\* parts lead to a bin lookup by the first three parts, the rest being
\* ignored (the response then carries that bin, or no bin when none has
\* that key, unless normalising the bin's capacity raises).
C8_Location ==
    [][Found' =>
         LET item == inventory[FirstNamed']
         IN IF Len(PartsOf(item)) < 3
            THEN response'.status = 500 /\ "data" \notin DOMAIN response'
            ELSE IF BinRaises(item) THEN response'.status = 500
            ELSE /\ response'.status = 200
                 /\ response'.data.bin_details =
                      IF ExpectedBin(item) = 0 THEN Null
                      ELSE BinDetails(warehouse_layout[ExpectedBin(item)]).v]_vars

C8_Witness ==
    /\ Found /\ response.status = 200
    /\ Len(PartsOf(response.data.item)) = 4
    /\ response.data.bin_details # Null
    /\ response.data.bin_details.zone_id = <<"A">>
    /\ response.data.bin_details.capacity = Obj([length |-> Num(2), width |-> Num(1), height |-> Num(1)])

(***************************************************************************)
(* C4.  parse_capacity never raises: a native record is returned           *)
(* unchanged, well-formed text gives the decoded structure, and text that  *)
(* fails to parse, for any reason, gives {length: 0, width: 0, height: 0}; *)
(* so a bin with malformed capacity never makes the dashboard or the       *)
(* statistics fail.                                                        *)
(***************************************************************************)
ParsedAsClaimed(capacity) ==
    LET r == parse_capacity(capacity)
    IN /\ r.ok
       /\ capacity.t # "text" => r.v = capacity
       /\ (capacity.t = "text" /\ LiteralEval(capacity.s).ok)
             => r.v = LiteralEval(capacity.s).v
       /\ (capacity.t = "text" /\ ~LiteralEval(capacity.s).ok)
             => r.v = ZeroCapacity

C4_ParseCapacityAbsorbsAll ==
    response.op \in {"dashboard", "stats"} =>
        /\ \A i \in 1..Len(warehouse_layout) :
              ParsedAsClaimed(warehouse_layout[i].capacity)
        /\ response.status = 200

(***************************************************************************)
(* C5.  For the bins of the whole warehouse (dashboard) and of each zone   *)
(* (statistics): total_capacity is the sum of length*width*height,         *)
(* used_capacity the sum of length*width*height*current_utilization with   *)
(* a missing current_utilization counted as 0, and the percentage is       *)
(* used/total*100 when total > 0 and 0 otherwise, never a division by      *)
(* zero and never clamped at 100.                                          *)
(***************************************************************************)
CapacityOf(b) == parse_capacity(b.capacity).v

HasVolume(b) ==
    /\ parse_capacity(b.capacity).ok
    /\ CapacityOf(b).t = "obj"
    /\ {"length", "width", "height"} \subseteq DOMAIN CapacityOf(b).v

VolumeOf(b) ==
    CapacityOf(b).v["length"].v * CapacityOf(b).v["width"].v * CapacityOf(b).v["height"].v

FractionOf(b) ==
    IF "current_utilization" \in DOMAIN b THEN b.current_utilization ELSE 0

RECURSIVE SumVolume(_)
SumVolume(S) ==
    IF S = {} THEN 0
    ELSE LET i == CHOOSE i \in S : TRUE
         IN VolumeOf(warehouse_layout[i]) + SumVolume(S \ {i})

RECURSIVE SumUsed(_)
SumUsed(S) ==
    IF S = {} THEN 0
    ELSE LET i == CHOOSE i \in S : TRUE
         IN VolumeOf(warehouse_layout[i]) * FractionOf(warehouse_layout[i])
              + SumUsed(S \ {i})

\* pct (a quotient num/den, in percent) is used/total*100, used being in
\* hundredths; 0 when there is no capacity.
PercentAsClaimed(pct, used, total) ==
    /\ pct.den > 0
    /\ IF total > 0 THEN pct.num * total = used * pct.den ELSE pct.num = 0

AggregateAsClaimed(total, used, pct, S) ==
    /\ total = SumVolume(S)
    /\ used = SumUsed(S)
    /\ PercentAsClaimed(pct, used, total)

AllBins == 1..Len(warehouse_layout)

BinsOfZone(zone) == {i \in AllBins : warehouse_layout[i].zone_id = zone}

InWindow(now) ==
    {i \in 1..Len(inventory) :
        /\ inventory[i].expiry_date.t = "date"
        /\ now <= inventory[i].expiry_date.v
        /\ inventory[i].expiry_date.v < now + SevenDays}

C7_ExpiringSoonSingleInstant ==
    [][(request'.op = "stats" /\ response'.status = 200) =>
          \E now \in clock..clock' :
              response'.expiring_soon = Cardinality(InWindow(now))]_vars

====
